---- MODULE Spec2Model ----
(***************************************************************************)
(* wmproxy reverse proxy: the HTTP dispatcher of src/reverse/http.rs       *)
(* (route resolution, the per-connection session cache, the two locks,     *)
(* the server header), the backend side of a cached session's channels,    *)
(* and the Close frame of src/prot/close.rs.                               *)
(***************************************************************************)
EXTENDS Integers, Sequences, FiniteSets, TLC

(* ------------------------------ bounds -------------------------------- *)

\* inbound connections accepted by HttpConfig::process
NumConns == 2
\* requests that arrive in one behaviour; request r's fresh session is session r
MaxReqs == 3
\* requests one behaviour has between arrival and return at the same time
MaxPending == 2

Conns == 1..NumConns
Reqs == 1..MaxReqs

(* ------------------------- requests and routes ------------------------ *)

\* req.get_host() is an Option: NoHost is None
NoHost == "<none>"
ReqHosts == {NoHost, "a.com", "b.com", "c.com"}
\* a request's (path, method), as far as a location rule tells them apart
PathMethods == {"GET /x", "GET /y"}
\* the (host, path and method) of the requests that arrive under Spec
Requests == { <<NoHost, "GET /x">>, <<"c.com", "GET /y">> }

\* LocationConfig: the rule is the set of (path, method) it matches, the key
\* is what clone_only_hash keeps of it (0 is never a key)
Loc(rule, key) == [rule |-> rule, key |-> key]
Srv(name, locs) == [server_name |-> name, location |-> locs]

Keys == 1..3

\* HttpConfig.server lists a behaviour of Spec may start with (HttpConfig::new
\* gives the empty one).  Under the second the two requests go to one
\* location and to no location of the catch-all server, under the third to
\* two locations of two servers
ServerLists ==
    { <<>>,
      << Srv("a.com", << Loc({"GET /y"}, 1), Loc({"GET /x", "GET /y"}, 2) >>),
         Srv("b.com", << Loc({"GET /y"}, 3) >>),
         Srv("*",     << Loc({"GET /x"}, 3) >>) >>,
      << Srv("a.com", << Loc({"GET /x"}, 1) >>),
         Srv("c.com", << Loc({"GET /x", "GET /y"}, 2) >>) >> }

\* longest HttpConfig.server list a behaviour of SpecRoute starts with
MaxHosts == 3

\* the servers and server lists of SpecRoute: every list of at most MaxHosts
\* servers, each with one of three names and one of three location lists
RouteLocLists ==
    { <<>>,
      << Loc({"GET /x"}, 1) >>,
      << Loc({"GET /y"}, 1), Loc({"GET /x", "GET /y"}, 2) >> }
RouteServers == { Srv(n, ls) : n \in {"a.com", "b.com", "*"}, ls \in RouteLocLists }
AllServerLists == UNION { [1..n -> RouteServers] : n \in 0..MaxHosts }

\* req.get_host().unwrap_or(String::new())
get_host(h) == IF h = NoHost THEN "" ELSE h

\* LocationConfig::is_match_rule(&path, method)
is_match_rule(l, pm) == pm \in l.rule

\* LocationConfig::clone_only_hash()
clone_only_hash(l) == l.key

\* the condition of the loop over http.server (i counts from 1, index from 0)
ServerMatchesAlways(servers, i, host) == TRUE
ServerMatches(servers, i, host) ==
    \/ servers[i].server_name = host
    \/ host = ""
    \/ i - 1 = Len(servers) - 1

\* for (index, s) in http.server.iter().enumerate(): the first server the
\* condition accepts, 0 when the loop runs out
RECURSIVE FindServer(_, _, _)
FindServer(servers, i, host) ==
    IF i > Len(servers) THEN 0
    ELSE IF ServerMatches(servers, i, host) THEN i
    ELSE FindServer(servers, i + 1, host)

\* for l in s.location.iter(): the first location whose rule matches, 0 when
\* the loop runs out
RECURSIVE FindLocation(_, _, _)
FindLocation(locs, j, pm) ==
    IF j > Len(locs) THEN 0
    ELSE IF is_match_rule(locs[j], pm) THEN j
    ELSE FindLocation(locs, j + 1, pm)

\* the two loops of inner_operate_by_http: which server and location a
\* request is dispatched to, and the cache key of that location
Route(servers, h, pm) ==
    LET host == get_host(h)
        i == FindServer(servers, 1, host)
        j == IF i = 0 THEN 0 ELSE FindLocation(servers[i].location, 1, pm)
    IN  [server |-> i, loc |-> j,
         key |-> IF j = 0 THEN 0 ELSE clone_only_hash(servers[i].location[j])]

(* ------------------------------ responses ----------------------------- *)

\* a response (or what operate returns instead of one): answers is the
\* request it was produced for and via the backend session that delivered it
\* (both 0 when the proxy made it up), server the value of its server header
\* ("" when it has none), injected how many times operate inserted one
Resp(kind, status, body, answers, via) ==
    [kind |-> kind, status |-> status, body |-> body, answers |-> answers,
     via |-> via, server |-> "", injected |-> 0]

NoRes == Resp("none", 0, "", 0, 0)
Local503(body) == Resp("ok", 503, body, 0, 0)
BackendResp(r, s) == Resp("ok", 200, "backend", r, s)

\* Response::builder().status(503).body("unknow location")
UnknownLocation503 == Local503("unknow location")
\* Response::builder().status(503).body("unknow location to deal")
UnknownLocationToDeal503 == Local503("unknow location to deal")
\* Response::builder().status(503).body("already lose connection")
LostConnectionAsError == Resp("err", 0, "already lose connection", 0, 0)
LostConnection503 == Local503("already lose connection")
\* the Err of l.deal_request(req).await?
DealErrorAs503 == Local503("deal_request")
DealError == Resp("err", 0, "deal_request", 0, 0)
\* sender.unwrap() or receiver.unwrap() on None
UnwrapPanic == Resp("panic", 0, "unwrap on None", 0, 0)

\* HttpConfig::operate: the header goes on an Ok response, an error passes
OperateTwice(inner) ==
    IF inner.kind = "ok"
    THEN [inner EXCEPT !.server = "wmproxy", !.injected = @ + 2]
    ELSE inner
operate(inner) ==
    IF inner.kind = "ok"
    THEN [inner EXCEPT !.server = "wmproxy", !.injected = @ + 1]
    ELSE inner

(* ---------------------- frames (prot/close.rs) ------------------------ *)

\* longest length field of a frame header, in bytes (the width is fixed by
\* the implementation of ProtFrameHeader)
MaxLengthBytes == 2
\* largest payload length a received header declares
MaxLength == 2
\* most bytes the input buffer holds behind a received header
MaxBuf == 2

\* a u32 is kept as its two 16-bit halves <<high, low>>
U32s == { <<hi, lo>> : hi \in {0, 1, 255, 256, 32768, 65535},
                       lo \in {0, 1, 255, 256, 32768, 65535} }
\* the sock_map values of received headers
SomeU32s == { <<0, 0>>, <<1, 256>>, <<65535, 65535>> }

\* ProtKind, as far as the frame kinds are named
ProtKinds == <<"Open", "Data", "Close", "Ping", "Pong">>
KindByte(k) == CHOOSE i \in 1..Len(ProtKinds) : ProtKinds[i] = k
KindOf(b) == ProtKinds[b]
\* ProtFlag::zero()
ProtFlag_zero == 0

\* ProtFrameHeader::new(kind, flag, sock_map): the length starts at 0
ProtFrameHeader_new(kind, flag, sm) ==
    [kind |-> kind, flag |-> flag, sock_map |-> sm, length |-> 0]

\* BufMut::put_u32 and Buf::get_u32, high byte first
put_u32(v) == << v[1] \div 256, v[1] % 256, v[2] \div 256, v[2] % 256 >>
get_u32(b) == << b[1] * 256 + b[2], b[3] * 256 + b[4] >>

\* the length field on w bytes, high byte first
put_len(n, w) == [i \in 1..w |-> (n \div (256 ^ (w - i))) % 256]
RECURSIVE get_len(_)
get_len(b) == IF b = <<>> THEN 0
              ELSE b[Len(b)] + 256 * get_len(SubSeq(b, 1, Len(b) - 1))

\* ProtFrameHeader::encode: [kind][flag][sock_map][length], w the width of
\* the length field
HeaderEncode(head, w) ==
    << KindByte(head.kind), head.flag >> \o put_u32(head.sock_map)
       \o put_len(head.length, w)
HeaderSize(w) == 6 + w
\* the header read back off the first HeaderSize(w) bytes of b
HeaderDecode(b, w) ==
    [kind |-> KindOf(b[1]), flag |-> b[2],
     sock_map |-> get_u32(SubSeq(b, 3, 6)),
     length |-> get_len(SubSeq(b, 7, 6 + w))]

\* ProtFrameHeader::sock_map()
header_sock_map(header) == header.sock_map

\* ProtClose::new(sock_map)
ProtClose_new(sm) == [sock_map |-> sm]

\* ProtClose::sock_map()
ProtClose_sock_map(close) == close.sock_map

\* ProtClose::encode(self, buf): the header it builds, and what it leaves in
\* buf and returns, w the width of the header's length field
EncodeHead(close) ==
    [ProtFrameHeader_new("Close", ProtFlag_zero, close.sock_map)
        EXCEPT !.length = 0]
ProtClose_encode(close, buf, w) ==
    LET head == EncodeHead(close)
        bytes == HeaderEncode(head, w)
    IN  [head |-> head, buf |-> buf \o bytes, size |-> 0 + Len(bytes)]

\* ProtClose::parse(header, _buf): the frame it returns and what is left of
\* the buffer, which it does not read
ParseForgetsSockMap(header, buf) ==
    [close |-> [sock_map |-> <<0, 0>>], buf |-> buf]
ProtClose_parse(header, buf) ==
    [close |-> [sock_map |-> header_sock_map(header)], buf |-> buf]

\* no frame is being handled.  w: the width of the length field; sent: the
\* ProtClose encode was called on, prior: the buffer before encode, head and
\* size: the header encode built and the size it returned; buf: the buffer;
\* header: the header handed to parse and input the buffer handed to it;
\* close: the frame parse returned
NoClose == [sock_map |-> <<0, 0>>]
NoHeader == ProtFrameHeader_new("Open", ProtFlag_zero, <<0, 0>>)
NoWire ==
    [pc |-> "idle", w |-> 0, sent |-> NoClose, prior |-> <<>>,
     head |-> NoHeader, size |-> 0, buf |-> <<>>, header |-> NoHeader,
     input |-> <<>>, close |-> NoClose]

(* ------------------------------- state -------------------------------- *)

VARIABLES
    http,       \* HttpConfig.server, shared by every connection
    accepted,   \* how many connections process has been called for
    arrived,    \* how many requests have arrived
    req,        \* per request: where it is in operate and what it did
    last,       \* the return operate made in the step that led here, if any
    cache,      \* per connection: InnerHttpOper.cache_sender, key -> session
    dataLock,   \* per connection: the request holding Mutex<InnerHttpOper>
    httpLock,   \* the request holding Mutex<HttpConfig>
    up,         \* per connection: its task is still running
    sess,       \* per session: the backend's ends of its two channels
    wire        \* the Close frame being encoded or parsed, and its buffer

\* the dispatcher's variables
httpVars == <<http, accepted, arrived, req, last, cache, dataLock, httpLock,
              up, sess>>

vars == <<http, accepted, arrived, req, last, cache, dataLock, httpLock, up,
          sess, wire>>

EmptyCache == [k \in Keys |-> 0]

\* a request that has not arrived.  srv, loc, key: where the two loops took
\* it; found: the session the cache held for key (0: none) and closedAtCheck
\* whether the backend's receiver of that session was gone at that moment;
\* held: the pair checked out; sends, deals: how often the request went to
\* cache_client.0.send and to deal_request; recv: what recv gave; dealt: what
\* deal_request gave ("pair", "err", or "nopair" for an Ok without a sender
\* or receiver); during: see Arrive; before: the connection's cache when the
\* route was resolved
NoReq ==
    [pc |-> "none", conn |-> 0, host |-> NoHost, pm |-> "GET /x",
     srv |-> 0, loc |-> 0, key |-> 0, found |-> 0, closedAtCheck |-> FALSE,
     held |-> 0, sends |-> 0, deals |-> 0, recv |-> "", dealt |-> "",
     during |-> 0, before |-> EmptyCache]

\* a request operate has returned for
DoneReq == [NoReq EXCEPT !.pc = "done"]

\* what `last` keeps of a returned request `rec`, of the response `res` that
\* operate returned for it and of the cache `m` it left: was and now are the
\* cache's entry for the request's key before and after, othersKept says
\* that no entry of another key differs between the two.  cancelled is set
\* (and id is 0) when the step was the drop of request `cancelled`'s future
\* while it had a pair checked out
Summary(r, rec, res, m) ==
    [id |-> r, conn |-> rec.conn, host |-> rec.host, pm |-> rec.pm,
     during |-> rec.during, srv |-> rec.srv, loc |-> rec.loc,
     key |-> rec.key, found |-> rec.found,
     closedAtCheck |-> rec.closedAtCheck, sends |-> rec.sends,
     deals |-> rec.deals, recv |-> rec.recv, dealt |-> rec.dealt, res |-> res,
     was |-> IF rec.key = 0 THEN 0 ELSE rec.before[rec.key],
     now |-> IF rec.key = 0 THEN 0 ELSE m[rec.key],
     othersKept |-> \A k \in Keys \ {rec.key} : m[k] = rec.before[k],
     cancelled |-> 0]

\* `last` when the step that led here was no return of operate
NoLast == Summary(0, NoReq, NoRes, EmptyCache)

\* a session nobody holds any more (both proxy ends dropped); conn and key
\* say whose deal_request made it, eos that recv has given None on it
Gone == [live |-> FALSE, conn |-> 0, key |-> 0, rxOpen |-> FALSE,
         txOpen |-> FALSE, inq |-> <<>>, outq |-> <<>>, eos |-> FALSE]
\* the pair deal_request hands back: the backend holds the request receiver
\* and the response sender
Fresh(c, k) == [live |-> TRUE, conn |-> c, key |-> k, rxOpen |-> TRUE,
                txOpen |-> TRUE, inq |-> <<>>, outq |-> <<>>, eos |-> FALSE]

InitWith(lists) ==
    /\ http \in [server : lists]
    /\ accepted = 0
    /\ arrived = 0
    /\ req = [r \in Reqs |-> NoReq]
    /\ last = NoLast
    /\ cache = [c \in Conns |-> EmptyCache]
    /\ dataLock = [c \in Conns |-> 0]
    /\ httpLock = 0
    /\ up = [c \in Conns |-> TRUE]
    /\ sess = [s \in Reqs |-> Gone]
    /\ wire = NoWire

Init == InitWith(ServerLists)

(* --------------------------- the two locks ---------------------------- *)

\* data.lock().await returns when no request holds Mutex<InnerHttpOper>
DataLockFreeNoWait(c) == TRUE
DataLockFree(c) == dataLock[c] = 0

\* http.lock().await returns when no request holds Mutex<HttpConfig>
HttpLockFreeNoWait == TRUE
HttpLockFree == httpLock = 0

(* ------------------------- the session cache -------------------------- *)

\* InnerHttpOper::new(http) in process: every accepted connection gets a
\* cache of its own; CacheOf(c) is the cache connection c works on
CacheOfShared(c) == 1
CacheOf(c) == c

\* cache.contains_key(&clone)
contains_key(m, k) == m[k] # 0

\* cache.remove(&clone): the pair leaves the map
RemoveKeepsEntry(m, k) == m
Remove(m, k) == [m EXCEPT ![k] = 0]

\* cache.insert(clone, cache_client) on the two paths that come back from
\* recv
ReinsertForgets(m, k, s) == m
Reinsert(m, k, s) == [m EXCEPT ![k] = s]

\* cache.insert(clone, (sender.unwrap(), receiver.unwrap())) after
\* deal_request
InsertNewForgets(m, k, s) == m
InsertNew(m, k, s) == [m EXCEPT ![k] = s]

\* cache_client.0.is_closed(): the backend's request receiver is gone
is_closed_never(s) == FALSE
is_closed(s) == ~sess[s].rxOpen

(* ------------------------------ arrival ------------------------------- *)

InFlight == {"send", "recv", "deal"}
Pending == {r \in Reqs : req[r].pc \notin {"none", "done"}}

\* Server::incoming calls operate(req) for a request of connection c.
\* Connections are numbered in the order process is called for them, and
\* process(c) is folded into the arrival of c's first request.  The request
\* carries the connection's Arc<Mutex<InnerHttpOper>>, so the "unknow data"
\* error of inner_operate cannot happen.  `during` remembers a same-route
\* request of the same connection that has the route's cache entry checked
\* out at this moment (0: none)
Arrive(c, h, pm) ==
    /\ arrived < MaxReqs
    /\ Cardinality(Pending) < MaxPending
    /\ c <= accepted + 1
    /\ up[c]
    /\ LET r == arrived + 1
           k == Route(http.server, h, pm).key
           busy == {u \in Reqs : /\ req[u].conn = c
                                 /\ req[u].held # 0
                                 /\ req[u].key = k}
       IN  /\ arrived' = r
           /\ accepted' = IF c > accepted THEN c ELSE accepted
           /\ req' = [req EXCEPT ![r] =
                        [NoReq EXCEPT !.pc = "lockData", !.conn = c,
                                      !.host = h, !.pm = pm,
                                      !.during = IF busy = {} THEN 0
                                                 ELSE CHOOSE u \in busy : TRUE]]
    /\ last' = NoLast
    /\ UNCHANGED <<wire, http, cache, dataLock, httpLock, up, sess>>

\* inner_operate: let mut value = data.lock().await
LockData(r) ==
    /\ req[r].pc = "lockData"
    /\ DataLockFree(req[r].conn)
    /\ dataLock' = [dataLock EXCEPT ![req[r].conn] = r]
    /\ req' = [req EXCEPT ![r].pc = "lockHttp"]
    /\ last' = NoLast
    /\ UNCHANGED <<wire, http, accepted, arrived, cache, httpLock, up, sess>>

\* inner_operate returns `inner` for request r, which by then is `rec`, and
\* leaves the connection's cache as `m`: operate puts the header on it, both
\* guards are dropped
Returns(r, rec, inner, m) ==
    /\ last' = Summary(r, rec, operate(inner), m)
    /\ req' = [req EXCEPT ![r] = DoneReq]
    /\ dataLock' = [dataLock EXCEPT ![rec.conn] = 0]
    /\ httpLock' = 0

(* ------------------ inner_operate_by_http, first part ----------------- *)

\* let http = http.lock().await, the two loops, and the cache lookup: up to
\* the first await behind it (send or deal_request) or to a 503
Dispatch(r) ==
    /\ req[r].pc = "lockHttp"
    /\ HttpLockFree
    /\ LET c == req[r].conn
           m == cache[CacheOf(c)]
           rt == Route(http.server, req[r].host, req[r].pm)
           k == rt.key
           routed == [req[r] EXCEPT !.srv = rt.server, !.loc = rt.loc,
                                    !.key = k, !.before = m]
       IN  CASE rt.server = 0 ->
                  /\ Returns(r, routed, UnknownLocation503, m)
                  /\ UNCHANGED <<cache, sess>>
             [] rt.server # 0 /\ rt.loc = 0 ->
                  /\ Returns(r, routed, UnknownLocationToDeal503, m)
                  /\ UNCHANGED <<cache, sess>>
             [] rt.loc # 0 /\ ~contains_key(m, k) ->
                  /\ req' = [req EXCEPT ![r] =
                               [routed EXCEPT !.pc = "deal", !.deals = @ + 1]]
                  /\ httpLock' = r
                  /\ last' = NoLast
                  /\ UNCHANGED <<cache, dataLock, sess>>
             [] rt.loc # 0 /\ contains_key(m, k) /\ ~is_closed(m[k]) ->
                  /\ req' = [req EXCEPT ![r] =
                               [routed EXCEPT !.pc = "send", !.found = m[k],
                                   !.closedAtCheck = ~sess[m[k]].rxOpen,
                                   !.held = m[k]]]
                  /\ cache' = [cache EXCEPT ![CacheOf(c)] = Remove(m, k)]
                  /\ httpLock' = r
                  /\ last' = NoLast
                  /\ UNCHANGED <<dataLock, sess>>
             [] rt.loc # 0 /\ contains_key(m, k) /\ is_closed(m[k]) ->
                  \* cache_client goes out of scope before deal_request
                  /\ req' = [req EXCEPT ![r] =
                               [routed EXCEPT !.pc = "deal", !.found = m[k],
                                   !.closedAtCheck = ~sess[m[k]].rxOpen,
                                   !.deals = @ + 1]]
                  /\ cache' = [cache EXCEPT ![CacheOf(c)] = Remove(m, k)]
                  /\ sess' = [sess EXCEPT ![m[k]] =
                                 IF Remove(m, k)[k] = 0 THEN Gone ELSE @]
                  /\ httpLock' = r
                  /\ last' = NoLast
                  /\ UNCHANGED dataLock
    /\ UNCHANGED <<wire, http, accepted, arrived, up>>

(* ------------------ inner_operate_by_http, reuse path ----------------- *)

\* let send = cache_client.0.send(req).await: the request reaches the
\* backend's queue, or the send fails because the backend's receiver is gone;
\* the result is only printed, recv is awaited either way
SendReq(r) ==
    /\ req[r].pc = "send"
    /\ LET s == req[r].held
       IN  /\ sess' = [sess EXCEPT ![s].inq =
                          IF sess[s].rxOpen THEN Append(@, r) ELSE @]
           /\ req' = [req EXCEPT ![r].pc = "recv", ![r].sends = @ + 1]
    /\ last' = NoLast
    /\ UNCHANGED <<wire, http, accepted, arrived, cache, dataLock, httpLock, up>>

\* cache_client.1.recv().await gives Some(res): the pair goes back under the
\* same key and res is returned
RecvSome(r) ==
    /\ req[r].pc = "recv"
    /\ LET s == req[r].held
           c == req[r].conn
           m == Reinsert(cache[CacheOf(c)], req[r].key, s)
       IN  /\ sess[s].outq # <<>>
           /\ sess' = [sess EXCEPT ![s].outq = Tail(@)]
           /\ cache' = [cache EXCEPT ![CacheOf(c)] = m]
           /\ Returns(r, [req[r] EXCEPT !.recv = "some"],
                      BackendResp(Head(sess[s].outq), s), m)
    /\ UNCHANGED <<wire, http, accepted, arrived, up>>

\* cache_client.1.recv().await gives None (nothing queued and the backend's
\* response sender is gone): the pair goes back under the same key and a 503
\* is returned
RecvNoneFallsThrough(r) ==
    /\ req[r].pc = "recv"
    /\ sess[req[r].held].outq = <<>>
    /\ ~sess[req[r].held].txOpen
    /\ req' = [req EXCEPT ![r].pc = "deal", ![r].recv = "none",
                          ![r].held = 0, ![r].deals = @ + 1]
    /\ sess' = [sess EXCEPT ![req[r].held] = Gone]
    /\ last' = NoLast
    /\ UNCHANGED <<wire, http, accepted, arrived, cache, dataLock, httpLock,
                   up>>
RecvNone(r) ==
    /\ req[r].pc = "recv"
    /\ LET s == req[r].held
           c == req[r].conn
           m == Reinsert(cache[CacheOf(c)], req[r].key, s)
       IN  /\ sess[s].outq = <<>>
           /\ ~sess[s].txOpen
           /\ cache' = [cache EXCEPT ![CacheOf(c)] = m]
           /\ sess' = [sess EXCEPT ![s].eos = TRUE]
           /\ Returns(r, [req[r] EXCEPT !.recv = "none"], LostConnection503, m)
    /\ UNCHANGED <<wire, http, accepted, arrived, up>>

(* --------------- inner_operate_by_http, new-session path -------------- *)

\* l.deal_request(req).await? gives Ok((res, Some(sender), Some(receiver))):
\* the fresh pair (session r) goes into the cache, res answers this request.
\* A pair the insert displaces is dropped
DealOk(r) ==
    /\ req[r].pc = "deal"
    /\ LET c == req[r].conn
           k == req[r].key
           old == cache[CacheOf(c)][k]
           new == InsertNew(cache[CacheOf(c)], k, r)
       IN  /\ cache' = [cache EXCEPT ![CacheOf(c)] = new]
           /\ sess' = [s \in Reqs |->
                         IF s = r THEN Fresh(c, k)
                         ELSE IF s = old /\ new[k] # old THEN Gone
                         ELSE sess[s]]
           /\ Returns(r, [req[r] EXCEPT !.dealt = "pair"],
                      BackendResp(r, r), new)
    /\ UNCHANGED <<wire, http, accepted, arrived, up>>

\* l.deal_request(req).await? gives Err(e): `?` returns it at once
DealErr(r) ==
    /\ req[r].pc = "deal"
    /\ Returns(r, [req[r] EXCEPT !.dealt = "err"], DealError,
               cache[CacheOf(req[r].conn)])
    /\ UNCHANGED <<wire, http, accepted, arrived, cache, up, sess>>

\* l.deal_request(req).await? gives Ok with a None sender or receiver:
\* unwrap panics.  The panic unwinds the connection's task: its guards are
\* dropped, its InnerHttpOper goes with every pair cached in it, and the
\* other requests it was serving get nothing
DealNoPair(r) ==
    /\ req[r].pc = "deal"
    /\ LET c == req[r].conn
       IN  /\ up' = [up EXCEPT ![c] = FALSE]
           /\ last' = Summary(r, [req[r] EXCEPT !.dealt = "nopair"],
                               operate(UnwrapPanic), EmptyCache)
           /\ req' = [u \in Reqs |->
                        IF req[u].conn = c /\ req[u].pc # "none"
                        THEN DoneReq ELSE req[u]]
           /\ sess' = [s \in Reqs |->
                         IF \E k \in Keys : cache[CacheOf(c)][k] = s
                         THEN Gone ELSE sess[s]]
           /\ cache' = [cache EXCEPT ![CacheOf(c)] = EmptyCache]
           /\ dataLock' = [dataLock EXCEPT ![c] = 0]
           /\ httpLock' = 0
    /\ UNCHANGED <<wire, http, accepted, arrived>>

(* ----------------------------- cancellation --------------------------- *)

\* the places operate's future is suspended at
AwaitPoints == {"lockData", "lockHttp", "send", "recv", "deal"}

\* the cache a request leaves when its future is dropped while it has pair s
\* of key k checked out: cache_client is a local of the future, nothing puts
\* it back
CancelledCacheReinserts(m, k, s) == [m EXCEPT ![k] = s]
CancelledCache(m, k, s) == m

\* the future of operate(req) is dropped at an await: its locals go, that is
\* the guards it holds and the pair it has checked out
Cancel(r) ==
    /\ req[r].pc \in AwaitPoints
    /\ LET c == req[r].conn
           s == req[r].held
           m == IF s = 0 THEN cache[CacheOf(c)]
                ELSE CancelledCache(cache[CacheOf(c)], req[r].key, s)
       IN  /\ cache' = [cache EXCEPT ![CacheOf(c)] = m]
           /\ sess' = IF s # 0 /\ \A k \in Keys : m[k] # s
                      THEN [sess EXCEPT ![s] = Gone] ELSE sess
           /\ last' = IF s = 0 THEN NoLast
                      ELSE [Summary(0, req[r], NoRes, m) EXCEPT !.cancelled = r]
           /\ req' = [req EXCEPT ![r] = DoneReq]
           /\ dataLock' = [dataLock EXCEPT ![c] = IF @ = r THEN 0 ELSE @]
           /\ httpLock' = IF httpLock = r THEN 0 ELSE httpLock
    /\ UNCHANGED <<wire, http, accepted, arrived, up>>

(* ------------------ the backend's side of a session ------------------- *)

\* the backend takes the next request off the request channel and puts its
\* response on the response channel
BackendRespond(s) ==
    /\ sess[s].live /\ sess[s].rxOpen /\ sess[s].txOpen
    /\ sess[s].inq # <<>>
    /\ sess' = [sess EXCEPT ![s].inq = Tail(@),
                            ![s].outq = Append(@, Head(sess[s].inq))]
    /\ last' = NoLast
    /\ UNCHANGED <<wire, http, accepted, arrived, req, cache, dataLock, httpLock,
                   up>>

\* the backend drops (or closes) its Receiver<Request>: Sender::is_closed
\* turns true, sends fail, what was queued is lost
BackendDropRx(s) ==
    /\ sess[s].live /\ sess[s].rxOpen
    /\ sess' = [sess EXCEPT ![s].rxOpen = FALSE, ![s].inq = <<>>]
    /\ last' = NoLast
    /\ UNCHANGED <<wire, http, accepted, arrived, req, cache, dataLock, httpLock,
                   up>>

\* the backend drops its Sender<Response>: recv gives None once the queue is
\* empty
BackendDropTx(s) ==
    /\ sess[s].live /\ sess[s].txOpen
    /\ sess' = [sess EXCEPT ![s].txOpen = FALSE]
    /\ last' = NoLast
    /\ UNCHANGED <<wire, http, accepted, arrived, req, cache, dataLock, httpLock,
                   up>>

(* --------------------------- specification ---------------------------- *)

Next ==
    \/ \E c \in Conns, q \in Requests : Arrive(c, q[1], q[2])
    \/ \E r \in Reqs : LockData(r)
    \/ \E r \in Reqs : Dispatch(r)
    \/ \E r \in Reqs : SendReq(r)
    \/ \E r \in Reqs : RecvSome(r)
    \/ \E r \in Reqs : RecvNone(r)
    \/ \E r \in Reqs : DealOk(r)
    \/ \E r \in Reqs : DealErr(r)
    \/ \E r \in Reqs : DealNoPair(r)
    \/ \E r \in Reqs : Cancel(r)
    \/ \E s \in Reqs : BackendRespond(s)
    \/ \E s \in Reqs : BackendDropRx(s)
    \/ \E s \in Reqs : BackendDropTx(s)

Spec == Init /\ [][Next]_vars

(***************************************************************************)
(* SpecRoute: one request of any host and path through any server list, to *)
(* check the two loops of inner_operate_by_http on all of them.            *)
(***************************************************************************)

InitRoute == InitWith(AllServerLists)

ArriveRoute(h, pm) == arrived = 0 /\ Arrive(1, h, pm)

NextRoute ==
    \/ \E h \in ReqHosts, pm \in PathMethods : ArriveRoute(h, pm)
    \/ \E r \in Reqs : LockData(r)
    \/ \E r \in Reqs : Dispatch(r)
    \/ \E r \in Reqs : DealOk(r)
    \/ \E r \in Reqs : DealErr(r)

SpecRoute == InitRoute /\ [][NextRoute]_vars

(***************************************************************************)
(* SpecClose: a Close frame is encoded into a buffer, its header is read   *)
(* back and handed to parse; or a header arrives with some bytes behind it *)
(* and is handed to parse.                                                 *)
(***************************************************************************)

InitClose == InitWith({<<>>})

\* the buffers encode appends to
PriorBufs == { <<>>, <<7>> }
\* the buffers behind a received header
InputBufs == UNION { [1..n -> {0, 255}] : n \in 0..MaxBuf }

\* ProtClose::new(sm).encode(&mut buf) on a transport whose headers have a
\* length field of w bytes
CloseEncode(sm, prior, w) ==
    /\ wire.pc = "idle"
    /\ LET e == ProtClose_encode(ProtClose_new(sm), prior, w)
       IN  wire' = [wire EXCEPT !.pc = "encoded", !.w = w,
                                !.sent = ProtClose_new(sm), !.prior = prior,
                                !.head = e.head, !.size = e.size,
                                !.buf = e.buf]
    /\ UNCHANGED httpVars

\* the receiving side reads the header off the bytes encode wrote
HeaderRead ==
    /\ wire.pc = "encoded"
    /\ LET b == SubSeq(wire.buf, Len(wire.prior) + 1, Len(wire.buf))
           n == HeaderSize(wire.w)
       IN  wire' = [wire EXCEPT !.pc = "header",
                                !.header = HeaderDecode(b, wire.w),
                                !.input = SubSeq(b, n + 1, Len(b)),
                                !.buf = SubSeq(b, n + 1, Len(b))]
    /\ UNCHANGED httpVars

\* a header arrives from a peer, with some bytes behind it
Receive(header, input, w) ==
    /\ wire.pc = "idle"
    /\ wire' = [wire EXCEPT !.pc = "header", !.w = w, !.header = header,
                            !.input = input, !.buf = input]
    /\ UNCHANGED httpVars

\* ProtClose::parse(header, buf)
CloseParse ==
    /\ wire.pc = "header"
    /\ LET p == ProtClose_parse(wire.header, wire.buf)
       IN  wire' = [wire EXCEPT !.pc = "parsed", !.close = p.close,
                                !.buf = p.buf]
    /\ UNCHANGED httpVars

NextClose ==
    \/ \E sm \in U32s, prior \in PriorBufs, w \in 1..MaxLengthBytes :
          CloseEncode(sm, prior, w)
    \/ HeaderRead
    \/ \E k \in {"Close", "Data"}, sm \in SomeU32s, n \in 0..MaxLength,
          input \in InputBufs, w \in 1..MaxLengthBytes :
          Receive([ProtFrameHeader_new(k, ProtFlag_zero, sm) EXCEPT !.length = n],
                  input, w)
    \/ CloseParse

SpecClose == InitClose /\ [][NextClose]_vars

(***************************************************************************)
(* Properties.  `last` describes the return of operate that led to the      *)
(* state it is read in, so a state predicate on `last` is checked on every *)
(* return, with the caches and sessions as that return left them.          *)
(***************************************************************************)

\* operate has just returned
Returned == last.id # 0

\* session s is one a request of connection c for key k could be sent on
Usable(s, c, k) ==
    sess[s].live /\ sess[s].conn = c /\ sess[s].key = k /\ sess[s].rxOpen

\* C1 (session reuse).  A request that finds its key cached with the sender
\* open and gets a response from the receiver was sent once on that cached
\* pair, was answered from it, never went to deal_request, and leaves the
\* same pair in the cache under the same key; and deal_request is only ever
\* being called for a route of a connection while that connection has no
\* session of the route with an open sender, so a session that stays open
\* is established once.
C1_SessionReuse ==
    /\ \A r \in Reqs :
         req[r].pc = "deal" =>
            \A s \in Reqs : ~Usable(s, req[r].conn, req[r].key)
    /\ (Returned /\ last.found # 0 /\ ~last.closedAtCheck /\ last.recv = "some")
         => /\ last.deals = 0
            /\ last.sends = 1
            /\ last.res.kind = "ok"
            /\ last.res.via = last.found
            /\ last.now = last.found
            /\ cache[last.conn][last.key] = last.found

\* a third request answered on the session the first one established
C1_Witness ==
    /\ Returned /\ last.recv = "some" /\ last.deals = 0
    /\ last.found # 0 /\ last.id > last.found + 1
    /\ cache[last.conn][last.key] = last.found

\* C2 (closed-session fallback).  A request whose key is cached with a
\* sender that is closed at the check is never sent on that pair: the pair is
\* out of the cache and dropped, deal_request is called once, and when it
\* returns a pair the cache maps the key to that fresh pair, not the stale one.
C2_ClosedFallback ==
    /\ \A r \in Reqs :
         (req[r].pc \in InFlight /\ req[r].found # 0 /\ req[r].closedAtCheck)
           => /\ req[r].pc = "deal"
              /\ req[r].deals = 1
              /\ req[r].sends = 0
              /\ req[r].held = 0
              /\ cache[req[r].conn][req[r].key] = 0
              /\ ~sess[req[r].found].live
    /\ (Returned /\ last.found # 0 /\ last.closedAtCheck)
         => /\ last.sends = 0
            /\ last.deals = 1
            /\ last.was = last.found
            /\ last.res.kind = "ok"
                 => /\ last.res.via = last.id
                    /\ last.now = last.id
                    /\ last.now # last.found
                    /\ cache[last.conn][last.key] = last.id
                    /\ sess[last.id] = Fresh(last.conn, last.key)

\* a request found a closed pair and deal_request gave it a new one
C2_Witness ==
    /\ Returned /\ last.found # 0 /\ last.closedAtCheck
    /\ last.res.kind = "ok" /\ last.now = last.id

\* C3 (end-of-stream on a reused session).  When recv gives None to a request
\* that was sent on a cached pair, the same pair is back under the same key,
\* the request gets an Ok 503 "already lose connection" made by the proxy, and
\* deal_request was not called for it.
C3_EndOfStream ==
    (Returned /\ last.recv = "none")
      => /\ last.found # 0 /\ ~last.closedAtCheck /\ last.sends = 1
         /\ last.now = last.found
         /\ cache[last.conn][last.key] = last.found
         /\ last.res.kind = "ok"
         /\ last.res.status = 503
         /\ last.res.body = "already lose connection"
         /\ last.res.answers = 0 /\ last.res.via = 0
         /\ last.deals = 0
         /\ up[last.conn]

C3_Witness ==
    /\ Returned /\ last.recv = "none" /\ last.res.status = 503
    /\ cache[last.conn][last.key] = last.found /\ last.found # 0

\* C4 as stated: a request that arrives while a same-route request of its
\* connection has the entry checked out sees a cache miss and goes to
\* deal_request.
C4_AsStated ==
    /\ \A r \in Reqs :
         (req[r].during # 0 /\ req[r].pc \in InFlight)
           => req[r].pc = "deal" /\ req[r].found = 0
    /\ (Returned /\ last.during # 0 /\ last.key # 0)
         => last.found = 0 /\ last.deals = 1

\* C4 (amended).  While a request is at send, recv or deal_request, no other
\* request of the same connection has passed data.lock(): it has not
\* resolved its route, looked into the cache or called deal_request.
C4_SecondWaits ==
    \A r, u \in Reqs :
       (r # u /\ req[r].conn = req[u].conn /\ req[r].pc \in InFlight)
         => req[u].pc \in {"none", "lockData", "done"}

\* the first awaits its response with the entry checked out, the second,
\* for the same route, waits for the lock
C4_Witness ==
    \E r, u \in Reqs :
       /\ req[r].pc = "recv" /\ req[r].held # 0
       /\ cache[req[r].conn][req[r].key] = 0
       /\ req[u].pc = "lockData" /\ req[u].during = r

\* C5 (exclusive use).  No two requests hold the same pair, and a pair a
\* request holds is in no cache, so nobody else can take it.
C5_ExclusiveUse ==
    /\ \A r, u \in Reqs :
         (r # u /\ req[r].held # 0) => req[u].held # req[r].held
    /\ \A r \in Reqs :
         req[r].held # 0 =>
            /\ req[r].pc \in {"send", "recv"}
            /\ \A c \in Conns, k \in Keys : cache[c][k] # req[r].held

\* a request is between send and recv on a pair another request of the same
\* route and connection is waiting for
C5_Witness ==
    \E r, u \in Reqs :
       /\ req[r].pc = "recv" /\ sess[req[r].held].inq # <<>>
       /\ req[u].pc \in {"lockData", "lockHttp"} /\ req[u].during = r

\* C6 as stated: deal_request is never called for a route while any
\* connection's cache holds an open session of that route.
C6_AsStated ==
    \A r \in Reqs :
       req[r].pc = "deal" =>
          ~\E c \in Conns :
              /\ cache[c][req[r].key] # 0
              /\ sess[cache[c][req[r].key]].rxOpen

\* C6 (amended).  Every connection has a cache of its own: a cache holds only
\* pairs that requests of its own connection established, a request only
\* takes a pair of its own connection, and a request whose own connection's
\* cache has no entry for the route goes to deal_request whatever the other
\* caches hold.
C6_PerConnectionCache ==
    /\ \A c \in Conns, k \in Keys :
         cache[c][k] # 0 =>
            /\ sess[cache[c][k]].conn = c
            /\ sess[cache[c][k]].key = k
    /\ \A r \in Reqs :
         req[r].held # 0 => sess[req[r].held].conn = req[r].conn
    /\ (Returned /\ last.key # 0 /\ last.was = 0) => last.deals = 1

\* a request of one connection went to deal_request for a route while the
\* other connection's cache held an open session of that route
C6_Witness ==
    /\ Returned /\ last.deals = 1 /\ last.was = 0 /\ last.res.kind = "ok"
    /\ \E c \in Conns :
         /\ c # last.conn
         /\ cache[c][last.key] # 0
         /\ cache[c][last.key] < last.id
         /\ sess[cache[c][last.key]].rxOpen

\* what the sentence on route resolution says
Min(S) == CHOOSE x \in S : \A y \in S : x <= y
NamedLike(servers, h) == {i \in 1..Len(servers) : servers[i].server_name = h}
SaidServer(servers, h) ==
    IF h = NoHost THEN 1
    ELSE IF NamedLike(servers, h) # {} THEN Min(NamedLike(servers, h))
    ELSE Len(servers)
Matching(locs, pm) == {j \in 1..Len(locs) : is_match_rule(locs[j], pm)}
SaidLocation(locs, pm) ==
    IF Matching(locs, pm) = {} THEN 0 ELSE Min(Matching(locs, pm))

RoutedAsSaid(x) ==
    /\ x.srv = SaidServer(http.server, x.host)
    /\ x.loc = SaidLocation(http.server[x.srv].location, x.pm)
    /\ x.loc # 0 => x.key = clone_only_hash(http.server[x.srv].location[x.loc])

\* C7 (route resolution).  With a non-empty server list, every request is
\* dispatched to the first server named like its host, to the first server
\* when it has no host, to the last server when no name matches, and in that
\* server to the first location whose rule matches (to none when none does).
C7_RouteResolution ==
    http.server # <<>> =>
       /\ \A r \in Reqs : req[r].pc \in InFlight => RoutedAsSaid(req[r])
       /\ Returned => RoutedAsSaid(last)

\* hosts a.com, b.com, * and a request for c.com: the catch-all's locations
\* are the ones evaluated
C7_Witness ==
    /\ Len(http.server) = 3
    /\ http.server[1].server_name = "a.com"
    /\ http.server[2].server_name = "b.com"
    /\ http.server[3].server_name = "*"
    /\ Returned /\ last.host = "c.com" /\ last.srv = 3 /\ last.loc = 2

\* C8 (unmatched location).  When the server the request is dispatched to has
\* no location that matches, the request gets a 503 "unknown location to
\* deal" made by the proxy, deal_request is not called and the cache is as it
\* was.
C8_UnmatchedLocation ==
    (Returned /\ last.srv # 0 /\ last.loc = 0)
      => /\ last.res.kind = "ok"
         /\ last.res.status = 503
         /\ last.res.body = "unknown location to deal"
         /\ last.deals = 0 /\ last.sends = 0
         /\ last.othersKept /\ last.was = last.now

\* C9 (no-host fallback).  With an empty server list a request gets a 503
\* "unknown location" made by the proxy, deal_request is not called and the
\* cache is as it was.
C9_NoHostFallback ==
    (Returned /\ http.server = <<>>)
      => /\ last.res.kind = "ok"
         /\ last.res.status = 503
         /\ last.res.body = "unknown location"
         /\ last.deals = 0 /\ last.sends = 0
         /\ last.othersKept /\ last.was = last.now

\* C10 (server header).  Every response operate returns has the server header
\* and got it in exactly one insertion; when operate returns no response
\* nothing was inserted.
C10_ServerHeader ==
    Returned =>
       /\ last.res.kind \in {"ok", "err", "panic"}
       /\ last.res.kind = "ok"
            => last.res.server = "wmproxy" /\ last.res.injected = 1
       /\ last.res.kind # "ok"
            => last.res.server = "" /\ last.res.injected = 0

\* the 503 of a lost connection went out with the header
C10_Witness ==
    /\ Returned /\ last.recv = "none" /\ last.res.status = 503
    /\ last.res.server = "wmproxy" /\ last.res.injected = 1

\* C11 (new-session insertion).  Whenever deal_request returns successfully,
\* with or without a sender and a receiver in its result, the request gets
\* the response of that call and the cache maps the route key to the pair
\* the call returned.
C11_NewSessionInsertion ==
    (Returned /\ last.dealt \in {"pair", "nopair"})
      => /\ last.res.kind = "ok"
         /\ last.res.answers = last.id
         /\ last.now = last.id
         /\ cache[last.conn][last.key] = last.id

\* C12 (deal_request failure).  When deal_request fails, operate returns that
\* error and no response (no 503 in its place, no header), no pair was made
\* or inserted, the cache has no entry for the route key (a closed entry
\* that was taken out is dropped, not put back) and the entries of the other
\* keys are as before.
C12_DealFailure ==
    (Returned /\ last.dealt = "err")
      => /\ last.res.kind = "err"
         /\ last.res.body = "deal_request"
         /\ last.res.status = 0
         /\ last.res.injected = 0
         /\ last.deals = 1 /\ last.sends = 0
         /\ ~sess[last.id].live
         /\ last.now = 0
         /\ cache[last.conn][last.key] = 0
         /\ last.was # 0 => last.was = last.found /\ last.closedAtCheck
                               /\ ~sess[last.found].live
         /\ last.othersKept
         /\ up[last.conn]

\* deal_request failed for a request that had taken a closed entry out, while
\* the connection's cache has an entry for another key
C12_Witness ==
    /\ Returned /\ last.dealt = "err" /\ last.res.kind = "err"
    /\ last.found # 0 /\ last.was = last.found /\ last.now = 0
    /\ \E k \in Keys \ {last.key} : cache[last.conn][k] # 0

\* C13 (failed-send recovery).  A request whose send on the cached sender
\* fails (the backend's receiver went away after the is_closed check) goes
\* on to deal_request and does not wait on the receiver of that pair.
C13_FailedSendRecovery ==
    [][\A r \in Reqs :
         (req[r].pc = "send" /\ ~sess[req[r].held].rxOpen /\ req'[r].pc # "send")
           => req'[r].pc = "deal"]_vars

\* C14 (Close frame round trip).  For every sock_map, encode builds a header
\* of kind Close with zero flags, that sock_map and length 0, appends the
\* bytes of that header and nothing else to the buffer and returns their
\* number; the header read back off those bytes is that header, and parse
\* gives a frame whose sock_map() is the original value.
C14_CloseRoundTrip ==
    /\ wire.pc = "encoded"
         => /\ wire.head = [kind |-> "Close", flag |-> 0,
                            sock_map |-> wire.sent.sock_map, length |-> 0]
            /\ wire.buf = wire.prior \o HeaderEncode(wire.head, wire.w)
            /\ wire.size = HeaderSize(wire.w)
            /\ Len(wire.buf) = Len(wire.prior) + wire.size
    /\ (wire.pc \in {"header", "parsed"} /\ wire.size # 0)
         => /\ wire.header = wire.head
            /\ wire.header.length = 0
            /\ wire.input = <<>>
    /\ (wire.pc = "parsed" /\ wire.size # 0)
         => ProtClose_sock_map(wire.close) = ProtClose_sock_map(wire.sent)

\* the Close frame of sock_map 2^32 - 1 came back from its bytes
C14_Witness ==
    /\ wire.pc = "parsed" /\ wire.size # 0
    /\ wire.sent.sock_map = <<65535, 65535>>
    /\ ProtClose_sock_map(wire.close) = <<65535, 65535>>

\* C15 (decode consumption).  Whatever header and buffer parse is given, it
\* takes exactly the header's declared length off the buffer: what is left
\* is the input without its first `length` bytes.
C15_DecodeConsumption ==
    wire.pc = "parsed"
      => /\ Len(wire.input) >= wire.header.length
         /\ wire.buf = SubSeq(wire.input, wire.header.length + 1,
                              Len(wire.input))

\* C16 (self-correction after end-of-stream).  Once recv has given None on a
\* pair and the pair is back in the cache, no request is sent on it again:
\* the next request of the route finds its sender closed and goes to
\* deal_request, so no pair gives a second 503, whichever of its two ends
\* the backend dropped.
C16_SelfCorrection ==
    \A r \in Reqs :
       (req[r].pc \in InFlight /\ req[r].found # 0 /\ sess[req[r].found].eos)
         => /\ req[r].pc = "deal"
            /\ req[r].held = 0
            /\ req[r].closedAtCheck

\* the future of a request that had a pair checked out has just been dropped
Cancelled == last.cancelled # 0

\* C17 (cancellation).  When a request is cancelled at send or recv, the pair
\* it had checked out is discarded: it is in no cache and both its ends are
\* dropped, the key has no entry, the other entries are as they were and
\* both locks are free again.  A cache only ever holds pairs that have not
\* been dropped, and every backend response a request gets answers that very
\* request, never one that was cancelled.
C17_Cancellation ==
    /\ (Cancelled /\ last.found # 0 /\ ~last.closedAtCheck)
         => /\ ~sess[last.found].live
            /\ \A c \in Conns, k \in Keys : cache[c][k] # last.found
            /\ cache[last.conn][last.key] = 0
            /\ last.othersKept
            /\ dataLock[last.conn] = 0
            /\ httpLock = 0
    /\ \A c \in Conns, k \in Keys :
         cache[c][k] # 0 => sess[cache[c][k]].live
    /\ (Returned /\ last.res.kind = "ok" /\ last.res.answers # 0)
         => last.res.answers = last.id

\* a request was cancelled while it waited for the response to what it had
\* sent on a cached pair
C17_Witness ==
    /\ Cancelled /\ last.found # 0 /\ last.sends = 1
    /\ ~sess[last.found].live /\ cache[last.conn][last.key] = 0

\* C18 (global serialization).  A request that is at send, recv or
\* deal_request holds the HttpConfig lock and its connection's InnerHttpOper
\* lock, and one that waits for the HttpConfig lock already holds its
\* connection's lock; so at most one request of all connections is between
\* route resolution and its return, and while it is there (for as long as
\* its backend does not answer) no other request of any connection can take
\* the step that resolves its route.
C18_GlobalSerialization ==
    /\ \A r \in Reqs :
         /\ req[r].pc \in InFlight
              => httpLock = r /\ dataLock[req[r].conn] = r
         /\ req[r].pc = "lockHttp" => dataLock[req[r].conn] = r
         /\ req[r].pc = "lockData" => dataLock[req[r].conn] # r /\ httpLock # r
    /\ \A r, u \in Reqs :
         (r # u /\ req[r].pc \in InFlight)
           => /\ req[u].pc \notin InFlight
              /\ ~ENABLED Dispatch(u)
    /\ \A r \in Reqs :
         (req[r].pc = "recv" /\ sess[req[r].held].outq = <<>>
             /\ sess[req[r].held].txOpen)
           => ~ENABLED RecvSome(r) /\ ~ENABLED RecvNone(r)
    /\ httpLock # 0 => req[httpLock].pc \in InFlight
    /\ \A c \in Conns :
         dataLock[c] # 0 => /\ req[dataLock[c]].conn = c
                            /\ req[dataLock[c]].pc \in InFlight \cup {"lockHttp"}

\* a request waits on the receiver of a session whose backend has not
\* answered, a request of the other connection waits for the HttpConfig lock
C18_Witness ==
    \E r, u \in Reqs :
       /\ req[r].pc = "recv" /\ sess[req[r].held].outq = <<>>
       /\ sess[req[r].held].txOpen
       /\ req[u].pc = "lockHttp" /\ req[u].conn # req[r].conn
       /\ httpLock = r /\ dataLock[req[u].conn] = u

\* how often request r is among the requests the backends have been handed
\* on cached senders and not yet answered, or have answered
RECURSIVE Occurs(_, _)
Occurs(q, r) ==
    IF q = <<>> THEN 0
    ELSE (IF Head(q) = r THEN 1 ELSE 0) + Occurs(Tail(q), r)
RECURSIVE Handed(_, _)
Handed(S, r) ==
    IF S = {} THEN 0
    ELSE LET s == CHOOSE x \in S : TRUE
         IN  Occurs(sess[s].inq, r) + Occurs(sess[s].outq, r)
               + Handed(S \ {s}, r)

\* C19 (at-most-once forwarding).  A request goes to the backend at most
\* once: it is sent once on a cached sender and deal_request is not called
\* for it, or it is passed once to deal_request and not sent; a request that
\* gets the 503 of an unmatched route went to neither.
C19_AtMostOnce ==
    /\ \A r \in Reqs :
         /\ req[r].sends + req[r].deals <= 1
         /\ req[r].pc \in {"lockData", "lockHttp", "send", "deal"}
              => Handed(Reqs, r) = 0
         /\ req[r].pc = "recv" => /\ req[r].sends = 1 /\ req[r].deals = 0
                                   /\ Handed(Reqs, r) <= 1
         /\ req[r].pc = "deal" => req[r].sends = 0 /\ req[r].deals = 1
         /\ req[r].pc \in {"lockData", "lockHttp", "send"}
              => req[r].sends = 0 /\ req[r].deals = 0
    /\ Returned
         => /\ last.sends + last.deals <= 1
            /\ Handed(Reqs, last.id) <= last.sends
            /\ last.recv # "" => last.sends = 1 /\ last.deals = 0
            /\ last.dealt # "" => last.sends = 0 /\ last.deals = 1
            /\ last.loc = 0 => last.sends = 0 /\ last.deals = 0
            /\ last.loc # 0 => last.sends + last.deals = 1

\* a request is with the backend of a cached session, once, and waits
C19_Witness ==
    \E r \in Reqs :
       /\ req[r].pc = "recv" /\ req[r].found # 0
       /\ sess[req[r].held].inq = <<r>>
       /\ Handed(Reqs, r) = 1

\* C20 (frame of a handle operation).  A request that resolved to key K
\* leaves the entry of every other key of its connection's cache as it found
\* it, while it is at send, recv or deal_request and on every way it ends.
C20_Frame ==
    /\ \A r \in Reqs :
         req[r].pc \in InFlight =>
            \A k \in Keys \ {req[r].key} :
               cache[req[r].conn][k] = req[r].before[k]
    /\ (Returned \/ Cancelled) => last.othersKept

====
